---- MODULE Spec2Model ----
(***************************************************************************)
(* CafeControl: the order-total maintainer (trg_update_order_total), the   *)
(* audit-log recorder (trg_notify_customer_update,                         *)
(* trg_notify_menu_item_deletion) and the Tk forms of src/main.py that     *)
(* reach them, together with the order seeding loop of src/fake.py.        *)
(*                                                                         *)
(* Conventions                                                             *)
(*  - db is the COMMITTED content of the PostgreSQL database.  A handler   *)
(*    runs its SQL statements on a working copy (a "transaction" record);  *)
(*    Commit publishes the copy, Rollback discards it.                     *)
(*  - money is kept in cents (Numeric(10,2)); text typed into a price      *)
(*    entry is kept in tenths of a cent and rounded when it is stored.     *)
(*  - a string whose content matters (names, messages, phones) is a        *)
(*    sequence of tokens, so that concatenation and "contains" are real.   *)
(*  - SQL NULL / Python None is 0 for a foreign key and <<>> for the       *)
(*    result of an aggregate, which is <<v>> when it has a value.          *)
(*  - serial ids are taken from db.seq; an id burnt by a transaction that  *)
(*    is rolled back is not modelled (ids are still never reused).         *)
(***************************************************************************)
EXTENDS Integers, Sequences, FiniteSets, TLC

VARIABLES
    db,     \* committed tables: customers, employees, suppliers, ingredients,
            \* menu_items, recipes, orders,
            \* order_compositions, trigger_logs, and the serial counters seq
    win,    \* the open Toplevel form with everything its closures captured
    last,   \* the handler that ran in the last step and how it ended
    tx,     \* concurrent sessions of two application instances (SpecConc)
    trees,  \* the rows shown by the Treeviews of the Orders and Logs tabs
            \* (orders_tree, logs_tree), as their last reload left them
    wb      \* the sheets of the workbook that export_report saved last

vars == <<db, win, last, tx, trees, wb>>

----------------------------------------------------------------------------
(* Bounds of the model *)

MaxCustomers == 2      \* customers ever inserted
MaxEmployees == 1      \* employees ever inserted
MaxMenuItems == 2      \* menu items ever inserted
MaxOrders == 2         \* orders ever inserted
MaxCompositions == 3   \* order_compositions rows ever inserted
MaxLogs == 2           \* trigger_logs rows ever inserted
MaxCart == 2           \* entries of a form's cart
MaxQuantity == 2       \* quantity of a cart entry that add_to_cart adds to
SeedOrders == 1        \* iterations of the seeding loop (20 in src/fake.py)
SeedMaxItems == 2      \* line items per seeded order (5 in src/fake.py)
SeedMaxQty == 2        \* quantity of a seeded line item (3 in src/fake.py)
SeedStatusChoices == 1 \* statuses the seed draws from (3 in src/fake.py)
MaxSuppliers == 1      \* suppliers ever inserted
MaxIngredients == 1    \* ingredients ever inserted
MaxRecipes == 1        \* recipes ever inserted

----------------------------------------------------------------------------
(* Values typed into the forms *)

None == 0                       \* Python None / SQL NULL of a foreign key
NULL == <<>>                    \* SQL NULL of an aggregate

CustomerNames == { <<"A">>, <<"B">> }
Emails == { "a@x", "b@x" }
Fios == { "E" }
MenuNames == { <<"Latte">>, <<"Tea">> }
BadNumber == <<>>               \* float() of the text raises ValueError
PriceInputs == { 2505 }         \* the text 2.505, in tenths of a cent
MenuPriceInputs == { 0, 1000, 2505 }   \* empty or 0, 1.00 and 2.505
MenuPriceTexts == { <<p>> : p \in MenuPriceInputs } \cup { BadNumber }
QtyInputs == { 0, 1 }          \* the quantity entry of a line-item form
CartQtyInputs == { 1 }
LargePriceInputs == { 6000000 }   \* 6000.00: two of them exceed the column
LargeQtyInputs == { 1, 2 }         \* the quantity entry of add_to_cart
GoodPhone == <<"8","9","9","9","1","2","3","4","5","6","7">>
FormattedPhone == <<"+","7"," ","(","9","1","2",")"," ","3","4","5","-","6","7","-","8","9">>
BadPhone == <<"1","2","3">>
PhoneInputs == { GoodPhone, BadPhone }
\* texts for the phone entry: a prefix, the first digit of the national
\* number, brackets or not, a character typed in the middle, and 9, 10 or
\* 11 national digits
PhonePrefixes == { <<>>, <<"+","7">>, <<"7">>, <<"8">>, <<"+","8">>, <<"x">> }
PhoneFirstDigits == { "1", "4", "9" }
PhoneInfixes == { <<>>, <<"-">>, <<" ">>, <<"x">>, <<"+">> }
PhoneTails == { <<"8">>, <<"8","9">>, <<"8","9","0">> }
PhoneTexts ==
    { prefix \o (IF brackets THEN <<"(">> ELSE <<>>) \o <<first, "1", "2">>
        \o (IF brackets THEN <<")">> ELSE <<>>) \o <<"3","4","5">>
        \o infix \o <<"6","7">> \o tail :
        prefix \in PhonePrefixes, first \in PhoneFirstDigits,
        brackets \in BOOLEAN, infix \in PhoneInfixes, tail \in PhoneTails }
ContactPhoneInputs == { <<>>, GoodPhone, FormattedPhone, BadPhone }
SupplierNames == { <<>>, <<"S">> }
IngredientNames == { <<"Milk">> }
LoyaltyLevels == { "Bronze" }
DiscountInputs == { <<0>>, BadNumber }   \* float() of the text: <<v>>
\* ["Noviy", "Gotov", "Oplachen"] of the seed; create_order writes the first
Statuses == << "Noviy", "Gotov", "Oplachen" >>
SeedStatuses == { Statuses[i] : i \in 1..SeedStatusChoices }
StatusTexts == { "Gotov", "Otmenen" }    \* texts typed into status_entry

----------------------------------------------------------------------------
(* Helpers *)

Range(f) == { f[x] : x \in DOMAIN f }

Digits == { "0","1","2","3","4","5","6","7","8","9" }

IsDigit(c) == c \in Digits

IsDigitOrPlus(c) == c \in Digits \cup { "+" }

\* src/main.py:364-389
validate_russian_phone(phone) ==
    LET cleaned == SelectSeq(phone, IsDigitOrPlus)
        digits == SelectSeq(cleaned, IsDigit)
    IN  IF Len(digits) = 10 THEN digits[1] \in { "4", "8", "9" }
        ELSE IF Len(digits) = 11 THEN digits[1] \in { "7", "8" }
        ELSE FALSE

\* s is a contiguous part of msg
Contains(msg, s) ==
    \E i \in 1..(Len(msg) + 1) :
        /\ i + Len(s) - 1 <= Len(msg)
        /\ SubSeq(msg, i, i + Len(s) - 1) = s

\* a float stored in a Numeric(10, 2) column: rounded to cents, half away
\* from zero (input in tenths of a cent)
ToNumeric2(mills) ==
    IF mills >= 0 THEN (mills + 5) \div 10 ELSE -((-mills + 5) \div 10)

\* Numeric(10, 2) holds at most 8 digits before the point: 10^10 cents.
\* The model checker's integers have 32 bits, so the column is scaled to
\* Numeric(6, 2), 10^6 cents; the prices of the model are scaled with it.
NumericLimit == 1000000

FitsNumeric(cents) == cents < NumericLimit /\ cents > -NumericLimit

\* Decimal == float, as the ORM compares a loaded Numeric with the new
\* value: equal only when the decimal is exactly a binary fraction
FloatEqualsDecimal(mills, cents) == mills = 10 * cents /\ cents % 25 = 0

----------------------------------------------------------------------------
(* Transactions: a working copy of the database *)

Begin(d) == [db |-> d, ok |-> TRUE, err |-> "", n |-> 0]

Fail(t, e) == [t EXCEPT !.ok = FALSE, !.err = e]

\* one more statement has been executed on the working copy
Stmt(t, d) == [t EXCEPT !.db = d, !.n = @ + 1]

\* a session whose flushed statements stay when it is abandoned, as under
\* autocommit: the behaviour the rollback properties rule out
Rollback_keeps_flushed(d, t) == t.db

\* s.rollback(), or the connection returned to the pool without commit
Rollback(d, t) == d

\* s.commit(): the working copy becomes the committed state unless a
\* statement failed, in which case PostgreSQL has aborted the transaction
Commit(d, t) == IF t.ok THEN t.db ELSE Rollback(d, t)

Outcome(t) == IF t.ok THEN "commit" ELSE t.err

----------------------------------------------------------------------------
(* Triggers *)

CompsOf(d, order_id) ==
    { c \in DOMAIN d.order_compositions :
        d.order_compositions[c].order_id = order_id }

RECURSIVE SumCents(_, _)
SumCents(rows, ids) ==
    IF ids = {} THEN 0
    ELSE LET c == CHOOSE x \in ids : TRUE
         IN  rows[c].quantity * rows[c].price_at_sale
               + SumCents(rows, ids \ {c})

\* SUM(price_at_sale), the quantity forgotten: a trigger the total property
\* has to tell from the real one
SUM_without_quantity(d, order_id) ==
    IF CompsOf(d, order_id) = {} THEN NULL
    ELSE << SumCents([c \in DOMAIN d.order_compositions |->
                        [d.order_compositions[c] EXCEPT !.quantity = 1]],
                     CompsOf(d, order_id)) >>

\* SUM(quantity * price_at_sale) ... WHERE order_id = target: NULL on no row
SUM(d, order_id) ==
    IF CompsOf(d, order_id) = {} THEN NULL
    ELSE << SumCents(d.order_compositions, CompsOf(d, order_id)) >>

COALESCE(v, dflt) == IF v = NULL THEN dflt ELSE v[1]

\* a trigger that always reads NEW.order_id, which is NULL on DELETE
target_order_id_new_only(TG_OP, old, new) == new.order_id

\* IF (TG_OP = 'DELETE') THEN old.order_id ELSE new.order_id
target_order_id(TG_OP, old, new) ==
    IF TG_OP = "DELETE" THEN old.order_id ELSE new.order_id

\* the trigger's UPDATE without its WHERE id = target_order_id
update_order_total_every_order(t, TG_OP, old, new) ==
    LET target == target_order_id(TG_OP, old, new)
        total == COALESCE(SUM(t.db, target), 0)
    IN  IF ~t.ok THEN t
        ELSE IF ~FitsNumeric(total) THEN Fail(t, "NumericValueOutOfRange")
        ELSE [t EXCEPT !.db.orders =
                [o \in DOMAIN @ |-> [@[o] EXCEPT !.total_amount = total]]]

\* a total_amount column that keeps the low digits of what it is given
update_order_total_wrapping(t, TG_OP, old, new) ==
    LET target == target_order_id(TG_OP, old, new)
        total == COALESCE(SUM(t.db, target), 0)
    IN  IF ~t.ok THEN t
        ELSE IF target \notin DOMAIN t.db.orders THEN t
        ELSE [t EXCEPT !.db.orders[target].total_amount = total % NumericLimit]

\* trg_update_order_total: AFTER INSERT OR UPDATE OR DELETE, FOR EACH ROW
update_order_total(t, TG_OP, old, new) ==
    LET target == target_order_id(TG_OP, old, new)
        total == COALESCE(SUM(t.db, target), 0)
    IN  IF ~t.ok THEN t
        ELSE IF target \notin DOMAIN t.db.orders THEN t
        ELSE IF ~FitsNumeric(total) THEN Fail(t, "NumericValueOutOfRange")
        ELSE [t EXCEPT !.db.orders[target].total_amount = total]

\* a log that keeps one row for each entity and overwrites it
insert_trigger_log_upsert(d, trigger_name, action, entity, entity_id, message) ==
    [d EXCEPT
        !.trigger_logs =
            SelectSeq(@, LAMBDA e : e.entity # entity) \o
            <<[id |-> d.seq.trigger_logs,
               trigger_name |-> trigger_name,
               action |-> action,
               entity |-> entity,
               entity_id |-> entity_id,
               message |-> message,
               created_at |-> d.seq.trigger_logs]>>,
        !.seq.trigger_logs = @ + 1]

\* INSERT INTO trigger_logs (...) VALUES (...), created_at = NOW()
insert_trigger_log(d, trigger_name, action, entity, entity_id, message) ==
    [d EXCEPT
        !.trigger_logs = Append(@,
            [id |-> d.seq.trigger_logs,
             trigger_name |-> trigger_name,
             action |-> action,
             entity |-> entity,
             entity_id |-> entity_id,
             message |-> message,
             created_at |-> d.seq.trigger_logs]),
        !.seq.trigger_logs = @ + 1]

customer_update_prefix == << "Obnovleny dannye klienta: " >>

\* a trigger that writes OLD.name into the message
notify_customer_update_old_name(t, old, new) ==
    IF ~t.ok THEN t
    ELSE [t EXCEPT !.db = insert_trigger_log(@,
            "trg_notify_customer_update", "UPDATE", "customers", new.id,
            customer_update_prefix \o old.name)]

\* trg_notify_customer_update: AFTER UPDATE ON customers FOR EACH ROW
notify_customer_update(t, old, new) ==
    IF ~t.ok THEN t
    ELSE [t EXCEPT !.db = insert_trigger_log(@,
            "trg_notify_customer_update", "UPDATE", "customers", new.id,
            customer_update_prefix \o new.name)]

menu_item_deletion_prefix == << "Udaleno blyudo iz menyu: " >>

\* a trigger declared FOR EACH STATEMENT, where OLD is NULL
notify_menu_item_deletion_statement(t, old) ==
    IF ~t.ok THEN t
    ELSE [t EXCEPT !.db = insert_trigger_log(@,
            "trg_notify_menu_item_deletion", "DELETE", "menu_items", None,
            menu_item_deletion_prefix)]

\* trg_notify_menu_item_deletion: AFTER DELETE ON menu_items FOR EACH ROW
notify_menu_item_deletion(t, old) ==
    IF ~t.ok THEN t
    ELSE [t EXCEPT !.db = insert_trigger_log(@,
            "trg_notify_menu_item_deletion", "DELETE", "menu_items", old.id,
            menu_item_deletion_prefix \o old.name)]

----------------------------------------------------------------------------
(* SQL statements, as the ORM emits them, with the constraints of the tables *)

Without(f, id) == [x \in DOMAIN f \ {id} |-> f[x]]

\* NEW is NULL in a DELETE trigger and OLD is NULL in an INSERT trigger
NoRow == [order_id |-> None]

\* INSERT INTO customers: email is UNIQUE
insert_customer(t, row) ==
    IF ~t.ok THEN t
    ELSE IF \E c \in DOMAIN t.db.customers : t.db.customers[c].email = row.email
    THEN Fail(t, "UniqueViolation")
    ELSE Stmt(t, [t.db EXCEPT
            !.customers = (t.db.seq.customers :> row) @@ @,
            !.seq.customers = @ + 1])

\* UPDATE customers SET ... WHERE id = :id, then trg_notify_customer_update
update_customer(t, id, row) ==
    IF ~t.ok THEN t
    ELSE IF \E c \in DOMAIN t.db.customers \ {id} :
                t.db.customers[c].email = row.email
    THEN Fail(t, "UniqueViolation")
    ELSE notify_customer_update(
            Stmt(t, [t.db EXCEPT !.customers[id] = row]),
            [id |-> id, name |-> t.db.customers[id].name],
            [id |-> id, name |-> row.name])

\* INSERT INTO employees
insert_employee(t, row) ==
    IF ~t.ok THEN t
    ELSE Stmt(t, [t.db EXCEPT
            !.employees = (t.db.seq.employees :> row) @@ @,
            !.seq.employees = @ + 1])

\* UPDATE employees SET ... WHERE id = :id
update_employee(t, id, row) ==
    IF ~t.ok THEN t
    ELSE Stmt(t, [t.db EXCEPT !.employees[id] = row])

\* INSERT INTO suppliers
insert_supplier(t, row) ==
    IF ~t.ok THEN t
    ELSE Stmt(t, [t.db EXCEPT
            !.suppliers = (t.db.seq.suppliers :> row) @@ @,
            !.seq.suppliers = @ + 1])

\* UPDATE suppliers SET ... WHERE id = :id
update_supplier(t, id, row) ==
    IF ~t.ok THEN t
    ELSE Stmt(t, [t.db EXCEPT !.suppliers[id] = row])

\* INSERT INTO ingredients: supplier_id is a foreign key
insert_ingredient(t, row) ==
    IF ~t.ok THEN t
    ELSE IF row.supplier_id \notin DOMAIN t.db.suppliers
    THEN Fail(t, "ForeignKeyViolation")
    ELSE Stmt(t, [t.db EXCEPT
            !.ingredients = (t.db.seq.ingredients :> row) @@ @,
            !.seq.ingredients = @ + 1])

\* INSERT INTO recipes: menu_item_id and ingredient_id are foreign keys
insert_recipe(t, row) ==
    IF ~t.ok THEN t
    ELSE IF row.menu_item_id \notin DOMAIN t.db.menu_items
            \/ row.ingredient_id \notin DOMAIN t.db.ingredients
    THEN Fail(t, "ForeignKeyViolation")
    ELSE Stmt(t, [t.db EXCEPT
            !.recipes = (t.db.seq.recipes :> row) @@ @,
            !.seq.recipes = @ + 1])

\* INSERT INTO menu_items: name is UNIQUE, selling_price is Numeric(10, 2)
insert_menu_item(t, row) ==
    IF ~t.ok THEN t
    ELSE IF \E m \in DOMAIN t.db.menu_items : t.db.menu_items[m].name = row.name
    THEN Fail(t, "UniqueViolation")
    ELSE IF ~FitsNumeric(row.selling_price)
    THEN Fail(t, "NumericValueOutOfRange")
    ELSE Stmt(t, [t.db EXCEPT
            !.menu_items = (t.db.seq.menu_items :> row) @@ @,
            !.seq.menu_items = @ + 1])

\* an UPDATE of the menu item that also rewrites the price of the line
\* items that reference it
update_menu_item_repricing(t, id, row) ==
    IF ~t.ok THEN t
    ELSE IF \E m \in DOMAIN t.db.menu_items \ {id} :
                t.db.menu_items[m].name = row.name
    THEN Fail(t, "UniqueViolation")
    ELSE IF ~FitsNumeric(row.selling_price)
    THEN Fail(t, "NumericValueOutOfRange")
    ELSE Stmt(t, [t.db EXCEPT
            !.menu_items[id] = row,
            !.order_compositions =
                [c \in DOMAIN @ |->
                    IF @[c].menu_item_id = id
                    THEN [@[c] EXCEPT !.price_at_sale = row.selling_price]
                    ELSE @[c]]])

\* UPDATE menu_items SET ... WHERE id = :id (no trigger fires on UPDATE)
update_menu_item(t, id, row) ==
    IF ~t.ok THEN t
    ELSE IF \E m \in DOMAIN t.db.menu_items \ {id} :
                t.db.menu_items[m].name = row.name
    THEN Fail(t, "UniqueViolation")
    ELSE IF ~FitsNumeric(row.selling_price)
    THEN Fail(t, "NumericValueOutOfRange")
    ELSE Stmt(t, [t.db EXCEPT !.menu_items[id] = row])

\* the INSERT into a table whose employee_id and customer_id are no
\* foreign keys
insert_order_no_fk(t, customer_id, employee_id, status) ==
    IF ~t.ok THEN t
    ELSE Stmt(t, [t.db EXCEPT
            !.orders = (t.db.seq.orders :>
                          [customer_id |-> customer_id,
                           employee_id |-> employee_id,
                           status |-> status,
                           total_amount |-> 0]) @@ @,
            !.seq.orders = @ + 1])

\* INSERT INTO orders: employee_id and customer_id are foreign keys,
\* customer_id is nullable, total_amount defaults to 0.0
insert_order(t, customer_id, employee_id, status) ==
    IF ~t.ok THEN t
    ELSE IF employee_id \notin DOMAIN t.db.employees
            \/ (customer_id # None /\ customer_id \notin DOMAIN t.db.customers)
    THEN Fail(t, "ForeignKeyViolation")
    ELSE Stmt(t, [t.db EXCEPT
            !.orders = (t.db.seq.orders :>
                          [customer_id |-> customer_id,
                           employee_id |-> employee_id,
                           status |-> status,
                           total_amount |-> 0]) @@ @,
            !.seq.orders = @ + 1])

\* UPDATE orders SET employee_id = ..., customer_id = ..., status = ...
\* WHERE id = :id
update_order(t, id, customer_id, employee_id, status) ==
    IF ~t.ok THEN t
    ELSE IF employee_id = None THEN Fail(t, "NotNullViolation")
    ELSE IF employee_id \notin DOMAIN t.db.employees
            \/ (customer_id # None /\ customer_id \notin DOMAIN t.db.customers)
    THEN Fail(t, "ForeignKeyViolation")
    ELSE Stmt(t, [t.db EXCEPT !.orders[id].customer_id = customer_id,
                              !.orders[id].employee_id = employee_id,
                              !.orders[id].status = status])

\* the INSERT into a table whose order_id is no foreign key
insert_order_composition_no_fk(t, row) ==
    IF ~t.ok THEN t
    ELSE IF row.menu_item_id \notin DOMAIN t.db.menu_items
    THEN Fail(t, "ForeignKeyViolation")
    ELSE update_order_total(
            Stmt(t, [t.db EXCEPT
                !.order_compositions = (t.db.seq.order_compositions :> row) @@ @,
                !.seq.order_compositions = @ + 1]),
            "INSERT", NoRow, row)

\* INSERT INTO order_compositions, then trg_update_order_total
insert_order_composition(t, row) ==
    IF ~t.ok THEN t
    ELSE IF row.order_id \notin DOMAIN t.db.orders
            \/ row.menu_item_id \notin DOMAIN t.db.menu_items
    THEN Fail(t, "ForeignKeyViolation")
    ELSE IF ~FitsNumeric(row.price_at_sale)
    THEN Fail(t, "NumericValueOutOfRange")
    ELSE update_order_total(
            Stmt(t, [t.db EXCEPT
                !.order_compositions = (t.db.seq.order_compositions :> row) @@ @,
                !.seq.order_compositions = @ + 1]),
            "INSERT", NoRow, row)

\* UPDATE order_compositions SET quantity = ..., price_at_sale = ...
\* WHERE id = :id, then trg_update_order_total.  The ORM raises
\* StaleDataError when the row is gone.
update_order_composition(t, id, quantity, price_at_sale) ==
    IF ~t.ok THEN t
    ELSE IF id \notin DOMAIN t.db.order_compositions
    THEN Fail(t, "StaleDataError")
    ELSE IF ~FitsNumeric(price_at_sale)
    THEN Fail(t, "NumericValueOutOfRange")
    ELSE update_order_total(
            Stmt(t, [t.db EXCEPT
                !.order_compositions[id].quantity = quantity,
                !.order_compositions[id].price_at_sale = price_at_sale]),
            "UPDATE", t.db.order_compositions[id],
            [t.db.order_compositions[id] EXCEPT
                !.quantity = quantity, !.price_at_sale = price_at_sale])

\* UPDATE order_compositions SET order_id = :order_id WHERE id = :id, then
\* trg_update_order_total for the row (AFTER INSERT OR UPDATE OR DELETE)
update_order_composition_order_id(t, id, order_id) ==
    IF ~t.ok THEN t
    ELSE IF id \notin DOMAIN t.db.order_compositions THEN t
    ELSE IF order_id \notin DOMAIN t.db.orders
    THEN Fail(t, "ForeignKeyViolation")
    ELSE update_order_total(
            Stmt(t, [t.db EXCEPT !.order_compositions[id].order_id = order_id]),
            "UPDATE", t.db.order_compositions[id],
            [t.db.order_compositions[id] EXCEPT !.order_id = order_id])

\* DELETE FROM order_compositions WHERE id = :id, then trg_update_order_total
delete_order_composition(t, id) ==
    IF ~t.ok \/ id \notin DOMAIN t.db.order_compositions THEN t
    ELSE update_order_total(
            Stmt(t, [t.db EXCEPT !.order_compositions = Without(@, id)]),
            "DELETE", t.db.order_compositions[id], NoRow)

\* the same for several rows: the rows the ORM deletes one by one, or the
\* rows of one bulk DELETE, whose row triggers run after the statement
RECURSIVE delete_order_compositions(_, _)
delete_order_compositions(t, ids) ==
    IF ids = {} THEN t
    ELSE LET c == CHOOSE x \in ids : TRUE
         IN  delete_order_compositions(delete_order_composition(t, c),
                                       ids \ {c})

\* DELETE FROM orders WHERE id = :id
delete_order(t, id) ==
    IF ~t.ok \/ id \notin DOMAIN t.db.orders THEN t
    ELSE IF CompsOf(t.db, id) # {} THEN Fail(t, "ForeignKeyViolation")
    ELSE Stmt(t, [t.db EXCEPT !.orders = Without(@, id)])

OrdersOfCustomer(d, id) ==
    { o \in DOMAIN d.orders : d.orders[o].customer_id = id }

OrdersOfEmployee(d, id) ==
    { o \in DOMAIN d.orders : d.orders[o].employee_id = id }

CompsOfMenuItem(d, id) ==
    { c \in DOMAIN d.order_compositions :
        d.order_compositions[c].menu_item_id = id }

RecipesOfMenuItem(d, id) ==
    { r \in DOMAIN d.recipes : d.recipes[r].menu_item_id = id }

\* DELETE FROM customers WHERE id = :id
delete_customer(t, id) ==
    IF ~t.ok \/ id \notin DOMAIN t.db.customers THEN t
    ELSE IF OrdersOfCustomer(t.db, id) # {} THEN Fail(t, "ForeignKeyViolation")
    ELSE Stmt(t, [t.db EXCEPT !.customers = Without(@, id)])

\* DELETE FROM employees WHERE id = :id
delete_employee(t, id) ==
    IF ~t.ok \/ id \notin DOMAIN t.db.employees THEN t
    ELSE IF OrdersOfEmployee(t.db, id) # {} THEN Fail(t, "ForeignKeyViolation")
    ELSE Stmt(t, [t.db EXCEPT !.employees = Without(@, id)])

\* DELETE FROM menu_items WHERE id = :id, then trg_notify_menu_item_deletion
delete_menu_item(t, id) ==
    IF ~t.ok \/ id \notin DOMAIN t.db.menu_items THEN t
    ELSE IF CompsOfMenuItem(t.db, id) # {} \/ RecipesOfMenuItem(t.db, id) # {}
    THEN Fail(t, "ForeignKeyViolation")
    ELSE notify_menu_item_deletion(
            Stmt(t, [t.db EXCEPT !.menu_items = Without(@, id)]),
            [id |-> id, name |-> t.db.menu_items[id].name])

----------------------------------------------------------------------------
(* s.delete(obj) with the cascades of the relationships *)

\* a cascade that deletes the line items of every order
orm_delete_order_every_item(t, id) ==
    delete_order(
        delete_order_compositions(t, DOMAIN t.db.order_compositions), id)

\* Order.compositions has cascade="all, delete": the line items are loaded
\* and deleted one by one, then the order
orm_delete_order(t, id) ==
    delete_order(delete_order_compositions(t, CompsOf(t.db, id)), id)

RECURSIVE orm_delete_orders(_, _)
orm_delete_orders(t, ids) ==
    IF ids = {} THEN t
    ELSE LET o == CHOOSE x \in ids : TRUE
         IN  orm_delete_orders(orm_delete_order(t, o), ids \ {o})

\* a cascade that takes the orders of every customer
orm_delete_customer_all_orders(t, id) ==
    delete_customer(orm_delete_orders(t, DOMAIN t.db.orders), id)

\* Customer.orders has cascade="all, delete"
orm_delete_customer(t, id) ==
    delete_customer(orm_delete_orders(t, OrdersOfCustomer(t.db, id)), id)

\* Employee.orders has no cascade: the ORM first sets employee_id of the
\* employee's orders to NULL, which the NOT NULL column rejects
orm_delete_employee(t, id) ==
    IF OrdersOfEmployee(t.db, id) # {} THEN Fail(t, "NotNullViolation")
    ELSE delete_employee(t, id)

\* the deletion with a nullable menu_item_id: the line items of the item
\* stay and lose their reference
orm_delete_menu_item_set_null(t, id) ==
    delete_menu_item(
        [t EXCEPT !.db.order_compositions =
            [c \in DOMAIN @ |->
                IF @[c].menu_item_id = id
                THEN [@[c] EXCEPT !.menu_item_id = None]
                ELSE @[c]]],
        id)

\* relationships with cascade="all, delete": the line items (with the
\* recomputation of their orders) and the recipes go with the menu item
orm_delete_menu_item_cascade(t, id) ==
    delete_menu_item(
        [delete_order_compositions(t, CompsOfMenuItem(t.db, id))
            EXCEPT !.db.recipes =
                [r \in DOMAIN @ \ RecipesOfMenuItem(t.db, id) |-> @[r]]],
        id)

\* MenuItem.compositions and MenuItem.recipes have no cascade: the ORM
\* first sets menu_item_id of the item's line items and recipes to NULL,
\* which the NOT NULL columns reject
orm_delete_menu_item(t, id) ==
    IF CompsOfMenuItem(t.db, id) # {} \/ RecipesOfMenuItem(t.db, id) # {}
    THEN Fail(t, "NotNullViolation")
    ELSE delete_menu_item(t, id)

----------------------------------------------------------------------------
(* State after start-up: create_all() on an empty database, no form open *)

NoWin == [kind |-> "none"]

\* what the last step was: the handler, how it ended ("commit", the name
\* of the error, or the validation that returned early) and how many SQL
\* statements it had executed by then
Done(op, result, n) == [op |-> op, result |-> result, n |-> n]

\* load_orders, src/main.py:502-523: the rows put into orders_tree (of the
\* columns: id, len(o.compositions), total_amount and status)
load_orders(d) ==
    [o \in DOMAIN d.orders |->
        [n |-> Cardinality(CompsOf(d, o)),
         total_amount |-> d.orders[o].total_amount,
         status |-> d.orders[o].status]]

\* .order_by(TriggerLog.created_at.desc())
RECURSIVE order_by_created_at_desc(_)
order_by_created_at_desc(rows) ==
    IF rows = {} THEN <<>>
    ELSE LET first == CHOOSE e \in rows :
                        \A x \in rows : x.created_at <= e.created_at
         IN  <<first>> \o order_by_created_at_desc(rows \ {first})

\* the query without its ORDER BY: the rows as the table holds them
query_trigger_logs_unordered(d) == d.trigger_logs

\* the rows load_logs puts into logs_tree
query_trigger_logs(d) == order_by_created_at_desc(Range(d.trigger_logs))

\* the trees as the start of the application fills them
Loaded(d) ==
    [orders_tree |-> load_orders(d), logs_tree |-> query_trigger_logs(d)]

\* no workbook has been saved
NoWorkbook == <<>>

\* a specification that is not about the tabs leaves the trees out
NoTrees == <<>>

\* load_orders() at the end of a handler that got that far
reload_orders(reached) ==
    trees' = IF reached /\ DOMAIN trees # {}
             THEN [trees EXCEPT !.orders_tree = load_orders(db')]
             ELSE trees

EmptyDb ==
    [customers |-> <<>>, employees |-> <<>>, menu_items |-> <<>>,
     orders |-> <<>>, order_compositions |-> <<>>, trigger_logs |-> <<>>,
     suppliers |-> <<>>, ingredients |-> <<>>, recipes |-> <<>>,
     seq |-> [customers |-> 1, employees |-> 1, menu_items |-> 1,
              orders |-> 1, order_compositions |-> 1, trigger_logs |-> 1,
              suppliers |-> 1, ingredients |-> 1, recipes |-> 1]]

Init ==
    /\ db = EmptyDb
    /\ win = NoWin
    /\ last = Done("start", "none", 0)
    /\ tx = <<>>
    /\ trees = Loaded(db)
    /\ wb = NoWorkbook

\* {key(row): row.id for row in s.query(Model).all()}: of the rows that
\* share a key, the one the unordered SELECT returns last stays in the dict
Dicts(tbl, key) ==
    { m \in [ { tbl[i][key] : i \in DOMAIN tbl } -> DOMAIN tbl ] :
        \A k \in DOMAIN m : tbl[m[k]][key] = k }

\* {m.name: m.id for m in items}: menu_items.name is UNIQUE
ItemIds(d) ==
    [ name \in { d.menu_items[i].name : i \in DOMAIN d.menu_items } |->
        CHOOSE i \in DOMAIN d.menu_items : d.menu_items[i].name = name ]

\* the handler ran transaction t: commit, or the exception leaves the
\* session uncommitted (the form stays open after an exception)
Finish(op, t) ==
    /\ db' = Commit(db, t)
    /\ last' = Done(op, Outcome(t), t.n)
    /\ win' = IF t.ok THEN NoWin ELSE win

\* a validation of the handler showed an error box and returned
Rejected(op, why) ==
    /\ db' = db
    /\ win' = win
    /\ last' = Done(op, why, 0)

----------------------------------------------------------------------------
(* Customers, employees, menu items *)

\* the handler writing an audit row itself after the INSERT
create_customer_save_logging ==
    \E name \in CustomerNames, phone \in PhoneInputs, email \in Emails :
        /\ db.seq.customers <= MaxCustomers
        /\ db.seq.trigger_logs <= MaxLogs
        /\ IF phone # <<>> /\ ~validate_russian_phone(phone)
           THEN Rejected("create_customer.save", "phone")
           ELSE LET t == insert_customer(Begin(db),
                            [name |-> name, phone |-> phone, email |-> email,
                             loyalty_level |-> "Bronze",
                             discount_percent |-> 0])
                    logged == IF t.ok
                              THEN [t EXCEPT !.db = insert_trigger_log(@,
                                        "create_customer", "INSERT",
                                        "customers", db.seq.customers, name)]
                              ELSE t
                IN  /\ db' = Commit(db, logged)
                    /\ last' = Done("create_customer.save", Outcome(t), t.n)
                    /\ win' = win
        /\ UNCHANGED <<tx, trees, wb>>

\* src/main.py:1031-1042
create_customer_save ==
    \E name \in CustomerNames, phone \in PhoneInputs, email \in Emails :
        /\ db.seq.customers <= MaxCustomers
        /\ IF phone # <<>> /\ ~validate_russian_phone(phone)
           THEN Rejected("create_customer.save", "phone")
           ELSE LET t == insert_customer(Begin(db),
                            [name |-> name, phone |-> phone, email |-> email,
                             loyalty_level |-> "Bronze",
                             discount_percent |-> 0])
                IN  /\ db' = Commit(db, t)
                    /\ last' = Done("create_customer.save", Outcome(t), t.n)
                    /\ win' = win
        /\ UNCHANGED <<tx, trees, wb>>

\* src/main.py:1031-1042 for a form whose phone entry holds win.e_phone
create_customer_save_entry ==
    /\ win.kind = "create_customer"
    /\ \E name \in CustomerNames, email \in Emails :
        /\ db.seq.customers <= MaxCustomers
        /\ IF win.e_phone # <<>> /\ ~validate_russian_phone(win.e_phone)
           THEN Rejected("create_customer.save", "phone")
           ELSE Finish("create_customer.save",
                    insert_customer(Begin(db),
                        [name |-> name, phone |-> win.e_phone,
                         email |-> email, loyalty_level |-> "Bronze",
                         discount_percent |-> 0]))
        /\ UNCHANGED <<tx, trees, wb>>

\* src/main.py:1047-1081: the form is opened for the selected customer
edit_customer ==
    \E record_id \in DOMAIN db.customers :
        /\ win = NoWin
        /\ win' = [kind |-> "edit_customer", record_id |-> record_id]
        /\ last' = Done("edit_customer", "open", 0)
        /\ UNCHANGED <<db, tx, trees, wb>>

\* the flush of s2.commit(): an UPDATE only if an attribute has a net change
flush_customer(t, id, row) ==
    IF row = t.db.customers[id] THEN t ELSE update_customer(t, id, row)

\* the handler with s2.commit() moved before the parse of the discount
edit_customer_save_commit_first ==
    /\ win.kind = "edit_customer"
    /\ \E name \in CustomerNames, phone \in PhoneInputs, email \in Emails,
       level \in LoyaltyLevels, discount \in DiscountInputs :
        /\ db.seq.trigger_logs <= MaxLogs
        /\ IF phone # <<>> /\ ~validate_russian_phone(phone)
           THEN Rejected("edit_customer.save", "phone")
           ELSE IF win.record_id \notin DOMAIN db.customers
           THEN Rejected("edit_customer.save", "AttributeError")
           ELSE LET o == db.customers[win.record_id]
                    t == flush_customer(Begin(db), win.record_id,
                            [name |-> name, phone |-> phone, email |-> email,
                             loyalty_level |-> level,
                             discount_percent |-> o.discount_percent])
                IN  IF discount = BadNumber
                    THEN /\ db' = Commit(db, t)
                         /\ win' = win
                         /\ last' = Done("edit_customer.save", "discount", t.n)
                    ELSE Finish("edit_customer.save", t)
        /\ UNCHANGED <<tx, trees, wb>>

\* src/main.py:1083-1106
edit_customer_save ==
    /\ win.kind = "edit_customer"
    /\ \E name \in CustomerNames, phone \in PhoneInputs, email \in Emails,
       level \in LoyaltyLevels, discount \in DiscountInputs :
        /\ db.seq.trigger_logs <= MaxLogs
        /\ IF phone # <<>> /\ ~validate_russian_phone(phone)
           THEN Rejected("edit_customer.save", "phone")
           ELSE IF win.record_id \notin DOMAIN db.customers
           THEN Rejected("edit_customer.save", "AttributeError")
           ELSE IF discount = BadNumber
           THEN Rejected("edit_customer.save", "discount")
           ELSE Finish("edit_customer.save",
                    flush_customer(Begin(db), win.record_id,
                        [name |-> name, phone |-> phone, email |-> email,
                         loyalty_level |-> level,
                         discount_percent |-> discount[1]]))
        /\ UNCHANGED <<tx, trees, wb>>

\* src/main.py:944-964 (role, phone and salary are not modelled)
create_employee_save ==
    \E fio \in Fios, phone \in ContactPhoneInputs :
        /\ db.seq.employees <= MaxEmployees
        /\ IF phone # <<>> /\ ~validate_russian_phone(phone)
           THEN Rejected("create_employee.save", "phone")
           ELSE LET t == insert_employee(Begin(db),
                            [fio |-> fio, phone |-> phone])
                IN  /\ db' = Commit(db, t)
                    /\ last' = Done("create_employee.save", Outcome(t), t.n)
                    /\ win' = win
        /\ UNCHANGED <<tx, trees, wb>>

\* src/main.py:1112-1138: the form is opened for the selected employee
edit_employee ==
    \E record_id \in DOMAIN db.employees :
        /\ win = NoWin
        /\ win' = [kind |-> "edit_employee", record_id |-> record_id]
        /\ last' = Done("edit_employee", "open", 0)
        /\ UNCHANGED <<db, tx, trees, wb>>

\* src/main.py:1140-1163 (role and salary are not modelled); the flush
\* sends an UPDATE only if an attribute has a net change
edit_employee_save ==
    /\ win.kind = "edit_employee"
    /\ \E fio \in Fios, phone \in ContactPhoneInputs :
        /\ IF phone # <<>> /\ ~validate_russian_phone(phone)
           THEN Rejected("edit_employee.save", "phone")
           ELSE IF win.record_id \notin DOMAIN db.employees
           THEN Rejected("edit_employee.save", "AttributeError")
           ELSE LET row == [fio |-> fio, phone |-> phone]
                IN  Finish("edit_employee.save",
                        IF row = db.employees[win.record_id] THEN Begin(db)
                        ELSE update_employee(Begin(db), win.record_id, row))
        /\ UNCHANGED <<tx, trees, wb>>

\* src/main.py:830-852 (email and address are not modelled)
create_supplier_save ==
    \E name \in SupplierNames, phone \in ContactPhoneInputs :
        /\ db.seq.suppliers <= MaxSuppliers
        /\ IF name = <<>>
           THEN Rejected("create_supplier.save", "name")
           ELSE IF phone # <<>> /\ ~validate_russian_phone(phone)
           THEN Rejected("create_supplier.save", "phone")
           ELSE LET t == insert_supplier(Begin(db),
                            [name |-> name, phone |-> phone])
                IN  /\ db' = Commit(db, t)
                    /\ last' = Done("create_supplier.save", Outcome(t), t.n)
                    /\ win' = win
        /\ UNCHANGED <<tx, trees, wb>>

\* src/main.py:1172-1194: the form is opened for the selected supplier
edit_supplier ==
    \E record_id \in DOMAIN db.suppliers :
        /\ win = NoWin
        /\ win' = [kind |-> "edit_supplier", record_id |-> record_id]
        /\ last' = Done("edit_supplier", "open", 0)
        /\ UNCHANGED <<db, tx, trees, wb>>

\* the handler without its check of the phone
edit_supplier_save_unchecked ==
    /\ win.kind = "edit_supplier"
    /\ \E name \in SupplierNames, phone \in ContactPhoneInputs :
        /\ IF name = <<>>
           THEN Rejected("edit_supplier.save", "name")
           ELSE IF win.record_id \notin DOMAIN db.suppliers
           THEN Rejected("edit_supplier.save", "AttributeError")
           ELSE LET row == [name |-> name, phone |-> phone]
                IN  Finish("edit_supplier.save",
                        IF row = db.suppliers[win.record_id] THEN Begin(db)
                        ELSE update_supplier(Begin(db), win.record_id, row))
        /\ UNCHANGED <<tx, trees, wb>>

\* src/main.py:1196-1213
edit_supplier_save ==
    /\ win.kind = "edit_supplier"
    /\ \E name \in SupplierNames, phone \in ContactPhoneInputs :
        /\ IF name = <<>>
           THEN Rejected("edit_supplier.save", "name")
           ELSE IF phone # <<>> /\ ~validate_russian_phone(phone)
           THEN Rejected("edit_supplier.save", "phone")
           ELSE IF win.record_id \notin DOMAIN db.suppliers
           THEN Rejected("edit_supplier.save", "AttributeError")
           ELSE LET row == [name |-> name, phone |-> phone]
                IN  Finish("edit_supplier.save",
                        IF row = db.suppliers[win.record_id] THEN Begin(db)
                        ELSE update_supplier(Begin(db), win.record_id, row))
        /\ UNCHANGED <<tx, trees, wb>>

\* src/main.py:857-888: the form captures the suppliers
create_ingredient ==
    \E sup_map \in Dicts(db.suppliers, "name") :
        /\ win = NoWin
        /\ win' = [kind |-> "create_ingredient", sup_map |-> sup_map]
        /\ last' = Done("create_ingredient", "open", 0)
        /\ UNCHANGED <<db, tx, trees, wb>>

\* src/main.py:890-921 (unit, quantities and price are not modelled)
create_ingredient_save ==
    /\ win.kind = "create_ingredient"
    /\ \E e_name \in IngredientNames, sup_var \in DOMAIN win.sup_map :
        /\ db.seq.ingredients <= MaxIngredients
        /\ Finish("create_ingredient.save",
                insert_ingredient(Begin(db),
                    [name |-> e_name, supplier_id |-> win.sup_map[sup_var]]))
        /\ UNCHANGED <<tx, trees, wb>>

\* src/main.py:1377-1409: the form captures the menu and the ingredients
create_recipe ==
    \E ing_map \in Dicts(db.ingredients, "name") :
        /\ win = NoWin
        /\ win' = [kind |-> "create_recipe",
                   menu_map |-> ItemIds(db), ing_map |-> ing_map]
        /\ last' = Done("create_recipe", "open", 0)
        /\ UNCHANGED <<db, tx, trees, wb>>

\* src/main.py:1411-1430 (quantity_required and unit are not modelled)
create_recipe_save ==
    /\ win.kind = "create_recipe"
    /\ \E menu_var \in DOMAIN win.menu_map, ing_var \in DOMAIN win.ing_map :
        /\ db.seq.recipes <= MaxRecipes
        /\ Finish("create_recipe.save",
                insert_recipe(Begin(db),
                    [menu_item_id |-> win.menu_map[menu_var],
                     ingredient_id |-> win.ing_map[ing_var]]))
        /\ UNCHANGED <<tx, trees, wb>>

\* src/main.py:988-1010 (type and volume_or_weight are not modelled)
create_menu_item_save ==
    \E name \in MenuNames, price \in MenuPriceInputs :
        /\ db.seq.menu_items <= MaxMenuItems
        /\ LET t == insert_menu_item(Begin(db),
                        [name |-> name, selling_price |-> ToNumeric2(price)])
           IN  /\ db' = Commit(db, t)
               /\ last' = Done("create_menu_item.save", Outcome(t), t.n)
        /\ UNCHANGED <<win, tx, trees, wb>>

\* src/main.py:1290-1316: the form is opened for the selected menu item
edit_menu_item ==
    \E record_id \in DOMAIN db.menu_items :
        /\ win = NoWin
        /\ win' = [kind |-> "edit_menu_item", record_id |-> record_id]
        /\ last' = Done("edit_menu_item", "open", 0)
        /\ UNCHANGED <<db, tx, trees, wb>>

\* the flush of s2.commit(): an UPDATE only if the name or the price has a
\* net change against the row s2.get() loaded
flush_menu_item(t, id, name, price) ==
    LET o == t.db.menu_items[id]
        p_changed == ~FloatEqualsDecimal(price, o.selling_price)
    IN  IF name = o.name /\ ~p_changed THEN t
        ELSE update_menu_item(t, id,
                [name |-> name,
                 selling_price |-> IF p_changed THEN ToNumeric2(price)
                                   ELSE o.selling_price])

\* src/main.py:1318-1333 (type and volume_or_weight are not modelled)
edit_menu_item_save ==
    /\ win.kind = "edit_menu_item"
    /\ \E e_name \in MenuNames, e_price \in MenuPriceTexts :
        /\ IF e_price = BadNumber
           THEN Rejected("edit_menu_item.save", "ValueError")
           ELSE IF win.record_id \notin DOMAIN db.menu_items
           THEN Rejected("edit_menu_item.save", "AttributeError")
           ELSE Finish("edit_menu_item.save",
                    flush_menu_item(Begin(db), win.record_id,
                                    e_name, e_price[1]))
        /\ UNCHANGED <<tx, trees, wb>>

----------------------------------------------------------------------------
(* delete_selected(tree, model, reload_func), src/main.py:407-426.  The    *)
(* tree may show rows that are gone; "if obj" makes those a no-op.         *)

delete_selected(model, t) ==
    /\ db' = Commit(db, t)
    /\ last' = Done(model, Outcome(t), t.n)
    /\ UNCHANGED <<win, tx, wb>>
    /\ reload_orders(t.ok /\ model = "delete_selected(Order)")

delete_selected_Customer ==
    \E record_id \in DOMAIN db.customers :
        delete_selected("delete_selected(Customer)", orm_delete_customer(Begin(db), record_id))

delete_selected_Employee ==
    \E record_id \in DOMAIN db.employees :
        delete_selected("delete_selected(Employee)", orm_delete_employee(Begin(db), record_id))

delete_selected_MenuItem ==
    \E record_id \in DOMAIN db.menu_items :
        /\ db.seq.trigger_logs <= MaxLogs
        /\ delete_selected("delete_selected(MenuItem)",
                           orm_delete_menu_item(Begin(db), record_id))

delete_selected_Order ==
    \E record_id \in DOMAIN db.orders :
        delete_selected("delete_selected(Order)", orm_delete_order(Begin(db), record_id))

delete_selected_OrderComposition ==
    \E record_id \in DOMAIN db.order_compositions :
        delete_selected("delete_selected(OrderComposition)",
                        delete_order_composition(Begin(db), record_id))

\* src/main.py:455-471, the button of the Logs tab: the query and
\* reload_tree(logs_tree, rows)
load_logs ==
    /\ DOMAIN trees # {}
    /\ trees' = [trees EXCEPT !.logs_tree = query_trigger_logs(db)]
    /\ last' = Done("load_logs", "none", 0)
    /\ UNCHANGED <<db, win, tx, wb>>

\* src/main.py:338-361, the refresh button of the Order Details tab:
\* compositions_tree is reloaded and then load_orders() is called
refresh_order_compositions ==
    /\ DOMAIN trees # {}
    /\ UNCHANGED <<db, win, tx, wb>>
    /\ reload_orders(TRUE)
    /\ last' = Done("refresh_order_compositions", "none", 0)

\* a client of the database moves a line item to another order with one
\* UPDATE; the triggers created by src/main.py:215-220 stay in the database
\* and fire for every client (no form of the application does this)
sql_update_order_id ==
    \E id \in DOMAIN db.order_compositions, order_id \in DOMAIN db.orders :
        /\ order_id # db.order_compositions[id].order_id
        /\ LET t == update_order_composition_order_id(Begin(db), id, order_id)
           IN  /\ db' = Commit(db, t)
               /\ last' = Done("UPDATE order_compositions SET order_id",
                               Outcome(t), t.n)
        /\ UNCHANGED <<win, tx, trees, wb>>

\* FROM customers c LEFT JOIN orders o ... LEFT JOIN order_compositions oc
\* for the customers cs: a row for each line item of each of their orders,
\* a row with oc NULL for an order without line items (None stands for the
\* NULL id)
JoinedRows(d, cs) ==
    LET os == UNION { OrdersOfCustomer(d, c) : c \in cs }
    IN  { r \in os \X DOMAIN d.order_compositions :
                d.order_compositions[r[2]].order_id = r[1] }
        \cup { <<o, None>> : o \in { x \in os : CompsOf(d, x) = {} } }

\* the query of the sheet "Klienty LTV", src/main.py:1672-1688: GROUP BY
\* c.name, c.email with COUNT(o.id), COALESCE(SUM(...), 0) and
\* COALESCE(SUM(...) / NULLIF(COUNT(o.id), 0), 0); the quotient is kept as
\* the fraction num / den
customers_ltv(d) ==
    LET keys == { <<d.customers[c].name, d.customers[c].email>> :
                    c \in DOMAIN d.customers }
    IN  [ k \in keys |->
            LET cs == { c \in DOMAIN d.customers :
                          <<d.customers[c].name, d.customers[c].email>> = k }
                rows == JoinedRows(d, cs)
                items == { r[2] : r \in { x \in rows : x[2] # None } }
                count == Cardinality(rows)
                sum == IF items = {} THEN NULL
                       ELSE << SumCents(d.order_compositions, items) >>
            IN  [orders |-> count,
                 sum |-> COALESCE(sum, 0),
                 avg |-> IF sum = NULL \/ count = 0
                         THEN [num |-> 0, den |-> 1]
                         ELSE [num |-> sum[1], den |-> count]] ]

\* src/main.py:1607-1700 (of the sheets, the customers' one): the file
\* dialog returns a name and the workbook is saved, or it is cancelled
export_report ==
    /\ \/ /\ wb' = [customers_ltv |-> customers_ltv(db)]
          /\ last' = Done("export_report", "saved", 0)
       \/ /\ wb' = wb
          /\ last' = Done("export_report", "cancelled", 0)
    /\ UNCHANGED <<db, win, tx, trees>>

\* the user closes the form without saving
close_window ==
    /\ win # NoWin
    /\ win' = NoWin
    /\ last' = Done("close", "none", 0)
    /\ UNCHANGED <<db, tx, trees, wb>>

----------------------------------------------------------------------------
(* Order Details tab: single line items *)

\* src/main.py:602-634: the form captures the orders and the menu
create_order_composition ==
    /\ win = NoWin
    /\ win' = [kind |-> "create_order_composition",
               order_map |-> DOMAIN db.orders,
               item_map |-> ItemIds(db)]
    /\ last' = Done("create_order_composition", "open", 0)
    /\ UNCHANGED <<db, tx, trees, wb>>

\* src/main.py:636-650, with the texts of the quantity and price entries
\* taken from qtys and prices
create_order_composition_save_from(qtys, prices) ==
    /\ win.kind = "create_order_composition"
    /\ \E order_var \in win.order_map, item_var \in DOMAIN win.item_map,
       e_qty \in qtys, e_price \in prices :
        /\ db.seq.order_compositions <= MaxCompositions
        /\ Finish("create_order_composition.save",
                insert_order_composition(Begin(db),
                    [order_id |-> order_var,
                     menu_item_id |-> win.item_map[item_var],
                     quantity |-> e_qty,
                     price_at_sale |-> ToNumeric2(e_price)]))
        /\ UNCHANGED <<tx, wb>>
        /\ reload_orders(last'.result = "commit")

create_order_composition_save ==
    /\ win.kind = "create_order_composition"
    /\ create_order_composition_save_from(QtyInputs, PriceInputs)

\* the save of a line item at a price close to what total_amount can hold
create_order_composition_save_large ==
    /\ win.kind = "create_order_composition"
    /\ create_order_composition_save_from(LargeQtyInputs, LargePriceInputs)

\* src/main.py:655-675: the session s stays open and holds the loaded row
edit_order_composition ==
    \E record_id \in DOMAIN db.order_compositions :
        /\ win = NoWin
        /\ win' = [kind |-> "edit_order_composition",
                   record_id |-> record_id,
                   quantity |-> db.order_compositions[record_id].quantity,
                   price_at_sale |->
                       db.order_compositions[record_id].price_at_sale]
        /\ last' = Done("edit_order_composition", "open", 0)
        /\ UNCHANGED <<db, tx, trees, wb>>

\* the flush of s.commit(): an UPDATE of the columns with a net change
\* against the values loaded when the form was opened
flush_order_composition(t, c, quantity, price) ==
    LET q_changed == quantity # c.quantity
        p_changed == ~FloatEqualsDecimal(price, c.price_at_sale)
        now == t.db.order_compositions[c.record_id]
    IN  IF ~q_changed /\ ~p_changed THEN t
        ELSE IF c.record_id \notin DOMAIN t.db.order_compositions
        THEN Fail(t, "StaleDataError")
        ELSE update_order_composition(t, c.record_id,
                IF q_changed THEN quantity ELSE now.quantity,
                IF p_changed THEN ToNumeric2(price) ELSE now.price_at_sale)

\* src/main.py:677-684, with the texts of the entries taken from qtys and
\* prices
edit_order_composition_save_from(qtys, prices) ==
    /\ win.kind = "edit_order_composition"
    /\ \E e_qty \in qtys, e_price \in prices :
        /\ Finish("edit_order_composition.save",
                  flush_order_composition(Begin(db), win, e_qty, e_price))
        /\ UNCHANGED <<tx, wb>>
        /\ reload_orders(last'.result = "commit")

edit_order_composition_save ==
    /\ win.kind = "edit_order_composition"
    /\ edit_order_composition_save_from(QtyInputs, PriceInputs)

\* the save with a price close to what total_amount can hold
edit_order_composition_save_large ==
    /\ win.kind = "edit_order_composition"
    /\ edit_order_composition_save_from(LargeQtyInputs, LargePriceInputs)

----------------------------------------------------------------------------
(* Orders tab: an order with its cart *)

\* {"name (price)": (id, selling_price) for i in items}
ItemPrices(d) ==
    [ name \in { d.menu_items[i].name : i \in DOMAIN d.menu_items } |->
        LET i == CHOOSE x \in DOMAIN d.menu_items : d.menu_items[x].name = name
        IN  [id |-> i, price |-> d.menu_items[i].selling_price] ]

NoCustomer == << "<Net klienta>" >>

\* for item in cart: s.add(OrderComposition(...)), flushed in this order
RECURSIVE insert_cart(_, _, _)
insert_cart(t, order_id, cart) ==
    IF cart = <<>> THEN t
    ELSE insert_cart(
            insert_order_composition(t,
                [order_id |-> order_id,
                 menu_item_id |-> Head(cart).id,
                 quantity |-> Head(cart).quantity,
                 price_at_sale |-> Head(cart).price]),
            order_id, Tail(cart))

\* src/main.py:689-744
create_order ==
    \E employee_map \in Dicts(db.employees, "fio"),
       customer_map \in Dicts(db.customers, "name") :
        /\ win = NoWin
        /\ win' = [kind |-> "create_order",
                   employee_map |-> employee_map,
                   customer_map |-> customer_map,
                   item_map |-> ItemPrices(db),
                   cart |-> <<>>]
        /\ last' = Done("create_order", "open", 0)
        /\ UNCHANGED <<db, tx, trees, wb>>

\* src/main.py:746-760
create_order_add_to_cart ==
    /\ win.kind = "create_order"
    /\ \E key \in DOMAIN win.item_map, quantity \in CartQtyInputs :
        /\ Len(win.cart) < MaxCart
        /\ win' = [win EXCEPT !.cart = Append(@,
                        [id |-> win.item_map[key].id,
                         quantity |-> quantity,
                         price |-> win.item_map[key].price])]
        /\ last' = Done("create_order.add_to_cart", "none", 0)
        /\ UNCHANGED <<db, tx, trees, wb>>

\* src/main.py:762-805
create_order_save ==
    /\ win.kind = "create_order"
    /\ \E employee_var \in DOMAIN win.employee_map,
       customer_var \in DOMAIN win.customer_map \cup { NoCustomer } :
        /\ win.cart # <<>>
        /\ db.seq.orders <= MaxOrders
        /\ db.seq.order_compositions + Len(win.cart) - 1 <= MaxCompositions
        /\ LET c_id == IF customer_var = NoCustomer THEN None
                       ELSE win.customer_map[customer_var]
               order == insert_order(Begin(db), c_id,
                                     win.employee_map[employee_var],
                                     Statuses[1])
           IN  Finish("create_order.save",
                      insert_cart(order, db.seq.orders, win.cart))
        /\ UNCHANGED <<tx, wb>>
        /\ reload_orders(last'.result = "commit")

\* the rows of ids in the order of their ids
RECURSIVE CartOf(_, _)
CartOf(d, ids) ==
    IF ids = {} THEN <<>>
    ELSE LET c == CHOOSE x \in ids : \A y \in ids : x <= y
             row == d.order_compositions[c]
         IN  << [id |-> row.menu_item_id,
                 quantity |-> row.quantity,
                 price |-> row.price_at_sale] >> \o CartOf(d, ids \ {c})

\* src/main.py:1435-1523: the cart starts as the order's line items (in
\* the order the relationship loads them, taken here as the order of ids)
edit_order ==
    \E record_id \in DOMAIN db.orders,
       employee_map \in Dicts(db.employees, "fio"),
       customer_map \in Dicts(db.customers, "name") :
        /\ win = NoWin
        /\ win' = [kind |-> "edit_order",
                   record_id |-> record_id,
                   employee_map |-> employee_map,
                   customer_map |-> customer_map,
                   item_map |-> ItemPrices(db),
                   status |-> db.orders[record_id].status,
                   cart |-> CartOf(db, CompsOf(db, record_id))]
        /\ last' = Done("edit_order", "open", 0)
        /\ UNCHANGED <<db, tx, trees, wb>>

\* src/main.py:1525-1546: an item already in the cart gets the quantity
\* added, a new one is appended with the menu price
edit_order_add_to_cart ==
    /\ win.kind = "edit_order"
    /\ \E key \in DOMAIN win.item_map, quantity \in CartQtyInputs :
        LET item == win.item_map[key]
            hits == { i \in 1..Len(win.cart) : win.cart[i].id = item.id }
            first == CHOOSE i \in hits : \A j \in hits : i <= j
        IN  /\ IF hits # {}
               THEN win.cart[first].quantity + quantity <= MaxQuantity
               ELSE Len(win.cart) < MaxCart
            /\ win' = IF hits # {}
                      THEN [win EXCEPT !.cart[first].quantity = @ + quantity]
                      ELSE [win EXCEPT !.cart = Append(@,
                                [id |-> item.id,
                                 quantity |-> quantity,
                                 price |-> item.price])]
    /\ last' = Done("edit_order.add_to_cart", "none", 0)
    /\ UNCHANGED <<db, tx, trees, wb>>

\* src/main.py:1548-1553
edit_order_remove_from_cart ==
    /\ win.kind = "edit_order"
    /\ \E sel \in 1..Len(win.cart) :
        win' = [win EXCEPT !.cart =
                    SubSeq(@, 1, sel - 1) \o SubSeq(@, sel + 1, Len(@))]
    /\ last' = Done("edit_order.remove_from_cart", "none", 0)
    /\ UNCHANGED <<db, tx, trees, wb>>

\* the autoflush before the bulk delete: an UPDATE of the order only if
\* employee_id, customer_id or status has a net change
flush_order(t, id, customer_id, employee_id, status) ==
    IF t.db.orders[id].customer_id = customer_id
       /\ t.db.orders[id].employee_id = employee_id
       /\ t.db.orders[id].status = status
    THEN t
    ELSE update_order(t, id, customer_id, employee_id, status)

\* s2.query(OrderComposition).filter(order_id == record_id).delete():
\* one DELETE statement, trg_update_order_total fires for each row of it
\* the bulk DELETE matching no row
bulk_delete_order_compositions_no_row(t, order_id) == t

\* s2.query(OrderComposition).filter(order_id == record_id).delete()
bulk_delete_order_compositions(t, order_id) ==
    delete_order_compositions(t, CompsOf(t.db, order_id))

\* src/main.py:1555-1596, with the text status_entry holds
edit_order_save_as(status) ==
    /\ win.kind = "edit_order"
    /\ win.cart # <<>>
    /\ db.seq.order_compositions + Len(win.cart) - 1 <= MaxCompositions
    /\ \E employee_var \in DOMAIN win.employee_map,
          customer_var \in DOMAIN win.customer_map \cup { NoCustomer } :
        LET c_id == IF customer_var = NoCustomer THEN None
                    ELSE win.customer_map[customer_var]
            t0 == Begin(db)
            t1 == flush_order(t0, win.record_id, c_id,
                              win.employee_map[employee_var], status)
            t2 == bulk_delete_order_compositions(t1, win.record_id)
        IN  IF win.record_id \notin DOMAIN db.orders
            THEN Rejected("edit_order.save", "AttributeError")
            ELSE Finish("edit_order.save",
                        insert_cart(t2, win.record_id, win.cart))
    /\ UNCHANGED <<tx, wb>>
    /\ reload_orders(last'.result = "commit")

\* the save with status_entry left as the form filled it in
edit_order_save ==
    /\ win.kind = "edit_order"
    /\ edit_order_save_as(win.status)

\* the save after the user has typed a status
edit_order_save_status ==
    /\ win.kind = "edit_order"
    /\ \E status \in StatusTexts : edit_order_save_as(status)

----------------------------------------------------------------------------
(* src/fake.py:91-121: the seeding loop, one transaction *)

SeedItems ==
    UNION { [1..n -> [id : DOMAIN db.menu_items, quantity : 1..SeedMaxQty]] :
                n \in 1..SeedMaxItems }

\* one iteration: an order for a random customer (or none) and employee,
\* flushed, then its line items at the current menu price
seed_order(t, customer_id, employee_id, status, items) ==
    LET cart == [i \in 1..Len(items) |->
                    [id |-> items[i].id,
                     quantity |-> items[i].quantity,
                     price |-> t.db.menu_items[items[i].id].selling_price]]
    IN  insert_cart(insert_order(t, customer_id, employee_id, status),
                    t.db.seq.orders, cart)

RECURSIVE seed_orders(_, _)
seed_orders(t, plan) ==
    IF plan = <<>> THEN t
    ELSE seed_orders(seed_order(t, Head(plan).customer_id,
                                Head(plan).employee_id, Head(plan).status,
                                Head(plan).items),
                     Tail(plan))

fake_orders ==
    /\ db.employees # <<>>
    /\ db.menu_items # <<>>
    /\ db.seq.orders + SeedOrders - 1 <= MaxOrders
    /\ \E plan \in [1..SeedOrders ->
                      [customer_id : DOMAIN db.customers \cup { None },
                       employee_id : DOMAIN db.employees,
                       status : SeedStatuses,
                       items : SeedItems]] :
        LET t == seed_orders(Begin(db), plan)
        IN  /\ t.db.seq.order_compositions - 1 <= MaxCompositions
            /\ db' = Commit(db, t)
            /\ last' = Done("fake", Outcome(t), t.n)
    /\ UNCHANGED <<win, tx, trees, wb>>

----------------------------------------------------------------------------
(* The whole application, from an empty database *)

Next ==
    \/ export_report
    \/ load_logs
    \/ refresh_order_compositions
    \/ create_customer_save
    \/ edit_customer
    \/ edit_customer_save
    \/ create_employee_save
    \/ edit_employee
    \/ edit_employee_save
    \/ create_supplier_save
    \/ edit_supplier
    \/ edit_supplier_save
    \/ create_ingredient
    \/ create_ingredient_save
    \/ create_recipe
    \/ create_recipe_save
    \/ create_menu_item_save
    \/ edit_menu_item
    \/ edit_menu_item_save
    \/ delete_selected_Customer
    \/ delete_selected_Employee
    \/ delete_selected_MenuItem
    \/ delete_selected_Order
    \/ delete_selected_OrderComposition
    \/ close_window
    \/ create_order_composition
    \/ create_order_composition_save
    \/ edit_order_composition
    \/ edit_order_composition_save
    \/ create_order
    \/ create_order_add_to_cart
    \/ create_order_save
    \/ edit_order
    \/ edit_order_add_to_cart
    \/ edit_order_remove_from_cart
    \/ edit_order_save
    \/ edit_order_save_status
    \/ create_order_composition_save_large
    \/ edit_order_composition_save_large
    \/ fake_orders

Spec == Init /\ [][Next]_vars

----------------------------------------------------------------------------
(* SpecOrders: the order forms and the deletions, starting from a database *)
(* that already holds an employee and two menu items (a state of Spec:     *)
(* SeededReached).                                                         *)

SeededDb ==
    [EmptyDb EXCEPT
        !.employees = <<[fio |-> "E", phone |-> <<>>]>>,
        !.menu_items = <<[name |-> <<"Latte">>, selling_price |-> 100],
                         [name |-> <<"Tea">>, selling_price |-> 251]>>,
        !.seq.employees = 2, !.seq.menu_items = 3]

SeededReached == db = SeededDb

InitOrders ==
    /\ db = SeededDb
    /\ win = NoWin
    /\ last = Done("start", "none", 0)
    /\ tx = <<>>
    /\ trees = NoTrees
    /\ wb = NoWorkbook

NextOrders ==
    \/ delete_selected_MenuItem
    \/ delete_selected_Order
    \/ delete_selected_OrderComposition
    \/ close_window
    \/ create_order_composition
    \/ create_order_composition_save
    \/ edit_order_composition
    \/ edit_order_composition_save
    \/ create_order
    \/ create_order_add_to_cart
    \/ create_order_save
    \/ edit_order
    \/ edit_order_add_to_cart
    \/ edit_order_remove_from_cart
    \/ edit_order_save
    \/ fake_orders

SpecOrders == InitOrders /\ [][NextOrders]_vars

----------------------------------------------------------------------------
(* SpecAudit: the customer forms and the deletions, starting from a        *)
(* database that also holds one order with one line item of the first menu *)
(* item (a state of Spec: AuditReached).                                   *)

AuditDb ==
    [SeededDb EXCEPT
        !.orders = <<[customer_id |-> None, employee_id |-> 1,
                      status |-> Statuses[1], total_amount |-> 100]>>,
        !.order_compositions = <<[order_id |-> 1, menu_item_id |-> 1,
                                  quantity |-> 1, price_at_sale |-> 100]>>,
        !.seq.orders = 2, !.seq.order_compositions = 2]

AuditReached == db = AuditDb

InitAudit ==
    /\ db = AuditDb
    /\ win = NoWin
    /\ last = Done("start", "none", 0)
    /\ tx = <<>>
    /\ trees = NoTrees
    /\ wb = NoWorkbook

NextAudit ==
    \/ create_customer_save
    \/ edit_customer
    \/ edit_customer_save
    \/ close_window
    \/ delete_selected_Customer
    \/ delete_selected_MenuItem
    \/ delete_selected_Order
    \/ delete_selected_OrderComposition

SpecAudit == InitAudit /\ [][NextAudit]_vars

----------------------------------------------------------------------------
(* SpecMenu: the menu item edit form next to the forms that insert line    *)
(* items, starting from the database of SpecAudit.                         *)

InitMenu ==
    /\ db = AuditDb
    /\ win = NoWin
    /\ last = Done("start", "none", 0)
    /\ tx = <<>>
    /\ trees = NoTrees
    /\ wb = NoWorkbook

NextMenu ==
    \/ edit_menu_item
    \/ edit_menu_item_save
    \/ close_window
    \/ create_order_composition
    \/ create_order_composition_save
    \/ create_order
    \/ create_order_add_to_cart
    \/ create_order_save
    \/ edit_order
    \/ edit_order_add_to_cart
    \/ edit_order_save

SpecMenu == InitMenu /\ [][NextMenu]_vars

----------------------------------------------------------------------------
(* SpecStatus: the forms and the seed that write the status of an order    *)

InitStatus ==
    /\ db = AuditDb
    /\ win = NoWin
    /\ last = Done("start", "none", 0)
    /\ tx = <<>>
    /\ trees = NoTrees
    /\ wb = NoWorkbook

NextStatus ==
    \/ create_order
    \/ create_order_add_to_cart
    \/ create_order_save
    \/ edit_order
    \/ edit_order_add_to_cart
    \/ edit_order_remove_from_cart
    \/ edit_order_save
    \/ edit_order_save_status
    \/ fake_orders
    \/ close_window

SpecStatus == InitStatus /\ [][NextStatus]_vars

----------------------------------------------------------------------------
(* SpecRefs: the order forms next to the deletion of customers and         *)
(* employees, starting from the seeded database with one customer          *)

RefsDb ==
    [SeededDb EXCEPT
        !.customers = <<[name |-> <<"A">>, phone |-> GoodPhone,
                         email |-> "a@x", loyalty_level |-> "Bronze",
                         discount_percent |-> 0]>>,
        !.seq.customers = 2]

RefsReached == db = RefsDb

InitRefs ==
    /\ db = RefsDb
    /\ win = NoWin
    /\ last = Done("start", "none", 0)
    /\ tx = <<>>
    /\ trees = NoTrees
    /\ wb = NoWorkbook

NextRefs ==
    \/ create_customer_save
    \/ delete_selected_Customer
    \/ delete_selected_Employee
    \/ delete_selected_Order
    \/ create_order
    \/ create_order_add_to_cart
    \/ create_order_save
    \/ edit_order
    \/ edit_order_save
    \/ close_window

SpecRefs == InitRefs /\ [][NextRefs]_vars

----------------------------------------------------------------------------
(* SpecCrud: the handlers of SpecAudit and the line-item forms             *)

NextCrud ==
    \/ NextAudit
    \/ create_order_composition
    \/ create_order_composition_save
    \/ edit_order_composition
    \/ edit_order_composition_save

SpecCrud == InitAudit /\ [][NextCrud]_vars

----------------------------------------------------------------------------
(* SpecView: the Orders tab next to the handlers that change what it shows, *)
(* and SpecLogs: the Logs tab next to the handlers that fire the notify    *)
(* triggers.  Both start from the database of SpecAudit as the start of    *)
(* the application displays it.                                            *)

InitView ==
    /\ db = AuditDb
    /\ win = NoWin
    /\ last = Done("start", "none", 0)
    /\ tx = <<>>
    /\ trees = Loaded(db)
    /\ wb = NoWorkbook

NextView ==
    \/ refresh_order_compositions
    \/ delete_selected_Order
    \/ delete_selected_OrderComposition
    \/ create_order_composition
    \/ create_order_composition_save
    \/ edit_order_composition
    \/ edit_order_composition_save
    \/ create_order
    \/ create_order_add_to_cart
    \/ create_order_save
    \/ edit_order
    \/ edit_order_save
    \/ close_window

SpecView == InitView /\ [][NextView]_vars

NextLogs ==
    \/ load_logs
    \/ create_customer_save
    \/ edit_customer
    \/ edit_customer_save
    \/ delete_selected_MenuItem
    \/ delete_selected_OrderComposition
    \/ close_window

SpecLogs == InitView /\ [][NextLogs]_vars

----------------------------------------------------------------------------
(* SpecPhone: the new-customer form with a text in its phone entry         *)

InitPhone ==
    /\ db = EmptyDb
    /\ \E e_phone \in PhoneTexts \cup { GoodPhone, FormattedPhone, BadPhone } :
        win = [kind |-> "create_customer", e_phone |-> e_phone]
    /\ last = Done("start", "none", 0)
    /\ tx = <<>>
    /\ trees = NoTrees
    /\ wb = NoWorkbook

NextPhone ==
    \/ create_customer_save_entry
    \/ close_window

SpecPhone == InitPhone /\ [][NextPhone]_vars

----------------------------------------------------------------------------
(* SpecLarge: the line-item forms with prices close to the limit of        *)
(* total_amount, starting from the database of SpecAudit                   *)

NextLarge ==
    \/ create_order_composition
    \/ create_order_composition_save_large
    \/ edit_order_composition
    \/ edit_order_composition_save_large
    \/ delete_selected_OrderComposition
    \/ close_window

SpecLarge == InitAudit /\ [][NextLarge]_vars

----------------------------------------------------------------------------
(* SpecMove: the database of SpecAudit, the new-order form and a client    *)
(* that moves line items between orders                                    *)

NextMove ==
    \/ create_order
    \/ create_order_add_to_cart
    \/ create_order_save
    \/ close_window
    \/ delete_selected_OrderComposition
    \/ sql_update_order_id

SpecMove == InitAudit /\ [][NextMove]_vars

----------------------------------------------------------------------------
(* SpecRecipes: the forms that lead to a recipe next to the deletion of    *)
(* menu items and line items, starting from the database of SpecAudit      *)

NextRecipes ==
    \/ create_supplier_save
    \/ create_ingredient
    \/ create_ingredient_save
    \/ create_recipe
    \/ create_recipe_save
    \/ delete_selected_MenuItem
    \/ delete_selected_OrderComposition
    \/ close_window

SpecRecipes == InitAudit /\ [][NextRecipes]_vars

----------------------------------------------------------------------------
(* SpecContacts: the forms that store a phone, from the empty database     *)

NextContacts ==
    \/ create_customer_save
    \/ edit_customer
    \/ edit_customer_save
    \/ create_employee_save
    \/ edit_employee
    \/ edit_employee_save
    \/ create_supplier_save
    \/ edit_supplier
    \/ edit_supplier_save
    \/ close_window

SpecContacts == Init /\ [][NextContacts]_vars

----------------------------------------------------------------------------
(* SpecReport: the report next to the forms that create customers and      *)
(* orders, starting from the database of SpecRefs                          *)

NextReport ==
    \/ export_report
    \/ create_customer_save
    \/ create_order
    \/ create_order_add_to_cart
    \/ create_order_save
    \/ delete_selected_OrderComposition
    \/ close_window

SpecReport == InitRefs /\ [][NextReport]_vars

----------------------------------------------------------------------------
(* SpecConc: several instances of the application save line items through  *)
(* create_order_composition.save at the same time.  The engine is created  *)
(* without isolation_level, so each session runs at PostgreSQL's default,  *)
(* READ COMMITTED: a statement sees the rows committed before it began and *)
(* the rows of its own transaction.  The UPDATE of trg_update_order_total  *)
(* locks the row of the order until the end of the transaction.  An UPDATE *)
(* that finds the row locked waits; when the holder has committed it is    *)
(* applied to the new version of the row, while its sub-select over        *)
(* order_compositions keeps the snapshot the UPDATE began with.            *)
(* tx[i] is the open transaction of instance i; db is the committed state. *)

MaxInstances == 2

Instances == 1..MaxInstances

Idle == [pc |-> "idle"]

\* the instances whose transaction holds the row lock on the order
LockHolders(order_id) ==
    { i \in Instances :
        tx[i].pc = "flushed" /\ tx[i].row.order_id = order_id }

\* s.commit() begins: the flush sends the INSERT; the trigger's UPDATE
\* computes the total over its snapshot and takes the row lock or waits.
\* nextval() of the id sequence is not transactional.
session_flush ==
    \E i \in Instances, order_var \in DOMAIN db.orders,
       item_var \in DOMAIN db.menu_items, e_qty \in QtyInputs,
       e_price \in PriceInputs :
        LET row == [order_id |-> order_var, menu_item_id |-> item_var,
                    quantity |-> e_qty, price_at_sale |-> ToNumeric2(e_price)]
            t == insert_order_composition(Begin(db), row)
        IN  /\ tx[i].pc = "idle"
            /\ db.seq.order_compositions <= MaxCompositions
            /\ t.ok
            /\ tx' = [tx EXCEPT ![i] =
                        [pc |-> IF LockHolders(order_var) = {}
                                THEN "flushed" ELSE "blocked",
                         id |-> db.seq.order_compositions,
                         row |-> row,
                         total_amount |-> t.db.orders[order_var].total_amount]]
            /\ db' = [db EXCEPT !.seq.order_compositions = @ + 1]
            /\ last' = Done("create_order_composition.save", "flush", t.n)
            /\ UNCHANGED <<win, trees, wb>>

\* the holder of the row lock has committed: the waiting UPDATE goes on
session_lock_granted ==
    \E i \in Instances :
        /\ tx[i].pc = "blocked"
        /\ LockHolders(tx[i].row.order_id) = {}
        /\ tx' = [tx EXCEPT ![i].pc = "flushed"]
        /\ last' = Done("create_order_composition.save", "lock", 1)
        /\ UNCHANGED <<db, win, trees, wb>>

\* s.commit() ends: the line item and the total become visible
session_commit ==
    \E i \in Instances :
        /\ tx[i].pc = "flushed"
        /\ db' = [db EXCEPT
                    !.order_compositions = (tx[i].id :> tx[i].row) @@ @,
                    !.orders[tx[i].row.order_id].total_amount =
                        tx[i].total_amount]
        /\ tx' = [tx EXCEPT ![i] = Idle]
        /\ last' = Done("create_order_composition.save", "commit", 1)
        /\ UNCHANGED <<win, trees, wb>>

InitConc ==
    /\ db = AuditDb
    /\ win = NoWin
    /\ last = Done("start", "none", 0)
    /\ tx = [i \in Instances |-> Idle]
    /\ trees = NoTrees
    /\ wb = NoWorkbook

NextConc ==
    \/ session_flush
    \/ session_lock_granted
    \/ session_commit

SpecConc == InitConc /\ [][NextConc]_vars

----------------------------------------------------------------------------
(* Properties *)

RECURSIVE LineItemSum(_, _)
LineItemSum(d, ids) ==
    IF ids = {} THEN 0
    ELSE LET c == CHOOSE x \in ids : TRUE
         IN  d.order_compositions[c].quantity
               * d.order_compositions[c].price_at_sale
               + LineItemSum(d, ids \ {c})

LineItemsOf(d, o) ==
    { c \in DOMAIN d.order_compositions :
        d.order_compositions[c].order_id = o }

\* C1: in every committed state the total_amount of every order is the sum
\* of quantity * price_at_sale over the line items that reference it
C1_TotalIsSum ==
    \A o \in DOMAIN db.orders :
        db.orders[o].total_amount = LineItemSum(db, LineItemsOf(db, o))

\* an order with two line items whose quantity was edited afterwards
C1_Witness ==
    /\ last.op = "edit_order_composition.save"
    /\ last.result = "commit"
    /\ last.n = 1
    /\ \E o \in DOMAIN db.orders :
        /\ Cardinality(LineItemsOf(db, o)) = 2
        /\ db.orders[o].total_amount > 0

\* C2: a step that removes the last line item of an order that stays
\* leaves its total_amount at exactly 0
C2_LastItemDeletedZero ==
    [][\A o \in DOMAIN db.orders \cap DOMAIN db'.orders :
          (LineItemsOf(db, o) # {} /\ LineItemsOf(db', o) = {})
              => db'.orders[o].total_amount = 0]_vars

\* the only line item of an order has just been deleted
C2_Witness ==
    /\ last.op = "delete_selected(OrderComposition)"
    /\ last.result = "commit"
    /\ \E o \in DOMAIN db.orders :
        LineItemsOf(db, o) = {} /\ db.orders[o].total_amount = 0

AppendedOne(logs1, logs2) ==
    /\ Len(logs2) = Len(logs1) + 1
    /\ SubSeq(logs2, 1, Len(logs1)) = logs1

EditCommitted ==
    /\ win.kind = "edit_customer"
    /\ last'.op = "edit_customer.save"
    /\ last'.result = "commit"

\* one new entry: UPDATE, customers, the id of the edited customer, a
\* message that contains the name stored by the save
OneCustomerUpdateLogged ==
    /\ AppendedOne(db.trigger_logs, db'.trigger_logs)
    /\ LET e == db'.trigger_logs[Len(db'.trigger_logs)]
       IN  /\ e.action = "UPDATE"
           /\ e.entity = "customers"
           /\ e.entity_id = win.record_id
           /\ Contains(e.message, db'.customers[win.record_id].name)

\* C3, as stated: every committed save of the customer edit form adds
\* exactly one UPDATE/customers entry with the customer's id and new name
C3_EverySaveLogged ==
    [][EditCommitted => OneCustomerUpdateLogged]_vars

\* C3, amended: a committed save of the customer edit form that changes at
\* least one field adds exactly one UPDATE/customers entry with the
\* customer's id and new name; a committed save that changes no field adds
\* no entry
C3_ChangingSaveLogged ==
    [][EditCommitted =>
          IF db'.customers[win.record_id] # db.customers[win.record_id]
          THEN OneCustomerUpdateLogged
          ELSE db'.trigger_logs = db.trigger_logs]_vars

\* a save that renamed a customer has been committed and logged
C3_Witness ==
    /\ last.op = "edit_customer.save"
    /\ last.result = "commit"
    /\ last.n = 1
    /\ db.trigger_logs # <<>>
    /\ LET e == db.trigger_logs[Len(db.trigger_logs)]
       IN  /\ e.action = "UPDATE"
           /\ e.entity_id \in DOMAIN db.customers
           /\ Contains(e.message, <<"B">>)
           /\ db.customers[e.entity_id].name = <<"B">>

MenuDeletionsOf(d, m) ==
    { i \in DOMAIN d.trigger_logs :
        /\ d.trigger_logs[i].action = "DELETE"
        /\ d.trigger_logs[i].entity = "menu_items"
        /\ d.trigger_logs[i].entity_id = m }

\* C4: the step that deletes a menu item adds exactly one entry, DELETE,
\* menu_items, the item's id, a message with the item's name; and every
\* deleted menu item has exactly one such entry in every later state
C4_MenuDeletionLogged ==
    /\ [][\A m \in DOMAIN db.menu_items \ DOMAIN db'.menu_items :
            /\ AppendedOne(db.trigger_logs, db'.trigger_logs)
            /\ LET e == db'.trigger_logs[Len(db'.trigger_logs)]
               IN  /\ e.action = "DELETE"
                   /\ e.entity = "menu_items"
                   /\ e.entity_id = m
                   /\ Contains(e.message, db.menu_items[m].name)]_vars
    /\ [](\A m \in 1..(db.seq.menu_items - 1) \ DOMAIN db.menu_items :
            Cardinality(MenuDeletionsOf(db, m)) = 1)

\* a menu item was deleted, and another operation has committed since
C4_Witness ==
    /\ \E m \in 1..(db.seq.menu_items - 1) \ DOMAIN db.menu_items :
        \E i \in MenuDeletionsOf(db, m) :
            Contains(db.trigger_logs[i].message, SeededDb.menu_items[m].name)
    /\ last.op = "edit_customer.save"
    /\ last.result = "commit"

SaveFailed(ops) == last'.op \in ops /\ last'.result # "commit"

\* C5: a save of the order creation form or of the order edit form that
\* does not commit leaves orders, line items, totals and log as they were
C5_FailedOrderSaveNoTrace ==
    [][SaveFailed({"create_order.save", "edit_order.save"}) =>
          /\ db'.orders = db.orders
          /\ db'.order_compositions = db.order_compositions
          /\ db'.trigger_logs = db.trigger_logs]_vars

\* a save of the order creation form failed after it had inserted the
\* order and a line item
C5_Witness ==
    /\ last.op = "create_order.save"
    /\ last.result = "ForeignKeyViolation"
    /\ last.n >= 2

\* C7: no step updates or deletes an entry of trigger_logs: the log of the
\* state before is a prefix of the log of the state after
C7_LogAppendOnly ==
    [][/\ Len(db'.trigger_logs) >= Len(db.trigger_logs)
       /\ SubSeq(db'.trigger_logs, 1, Len(db.trigger_logs))
            = db.trigger_logs]_vars

\* the log holds an entry of each trigger, and a deletion came after them
C7_Witness ==
    /\ \E i, j \in DOMAIN db.trigger_logs :
        /\ i < j
        /\ db.trigger_logs[i].action = "UPDATE"
        /\ db.trigger_logs[j].action = "DELETE"
    /\ last.op = "delete_selected(Customer)"
    /\ last.result = "commit"

\* C8: a customer save or a menu item deletion that does not commit
\* leaves the log, the customers and the menu items as they were
C8_FailedAuditedOpNoLog ==
    [][SaveFailed({"edit_customer.save", "delete_selected(MenuItem)"}) =>
          /\ db'.trigger_logs = db.trigger_logs
          /\ db'.customers = db.customers
          /\ db'.menu_items = db.menu_items]_vars

\* a menu item deletion was refused because a line item references it
C8_Witness ==
    /\ last.op = "delete_selected(MenuItem)"
    /\ last.result = "NotNullViolation"
    /\ db.menu_items = SeededDb.menu_items

\* C9: every line item references an existing order; the insert of a line
\* item for an order that has been deleted fails and changes nothing
C9_NoOrphanLineItem ==
    /\ [](\A c \in DOMAIN db.order_compositions :
            db.order_compositions[c].order_id \in DOMAIN db.orders)
    /\ [][(win.kind = "create_order_composition"
            /\ last'.op = "create_order_composition.save") =>
            /\ last'.result # "commit" => db' = db
            /\ win.order_map \cap DOMAIN db.orders = {} =>
                  (last'.result = "ForeignKeyViolation" /\ db' = db)]_vars

\* the form was opened for an order that was deleted before the save
C9_Witness ==
    /\ win.kind = "create_order_composition"
    /\ last.op = "create_order_composition.save"
    /\ last.result = "ForeignKeyViolation"
    /\ win.order_map # {}
    /\ win.order_map \cap DOMAIN db.orders = {}
    /\ \A k \in DOMAIN win.item_map : win.item_map[k] \in DOMAIN db.menu_items

\* C10: the deletion of an order removes exactly the line items of that
\* order and leaves every other order, with its total, as it was
C10_OrderDeleteCascades ==
    [][(last'.op = "delete_selected(Order)" /\ last'.result = "commit") =>
          /\ Cardinality(DOMAIN db.orders \ DOMAIN db'.orders) = 1
          /\ \A o \in DOMAIN db.orders \ DOMAIN db'.orders :
            /\ DOMAIN db'.order_compositions
                 = DOMAIN db.order_compositions \ LineItemsOf(db, o)
              /\ \A c \in DOMAIN db'.order_compositions :
                    db'.order_compositions[c] = db.order_compositions[c]
              /\ \A q \in DOMAIN db'.orders : db'.orders[q] = db.orders[q]]_vars

\* an order with line items was deleted while another order has some
C10_Witness ==
    /\ last.op = "delete_selected(Order)"
    /\ last.result = "commit"
    /\ last.n >= 2
    /\ \E q \in DOMAIN db.orders : LineItemsOf(db, q) # {}

\* C6: once the concurrent transactions on an order have all committed,
\* the order's total_amount is the sum over its committed line items
C6_ConcurrentTotalIsSum ==
    (\A i \in Instances : tx[i].pc = "idle") =>
        \A o \in DOMAIN db.orders :
            db.orders[o].total_amount = LineItemSum(db, LineItemsOf(db, o))

\* the line items that a step inserts, deletes or changes
TouchedLineItems ==
    { c \in DOMAIN db.order_compositions \cup DOMAIN db'.order_compositions :
        \/ c \notin DOMAIN db.order_compositions
        \/ c \notin DOMAIN db'.order_compositions
        \/ db'.order_compositions[c] # db.order_compositions[c] }

ParentOf(c) ==
    IF c \in DOMAIN db'.order_compositions
    THEN db'.order_compositions[c].order_id
    ELSE db.order_compositions[c].order_id

\* C11: a committed insert, update or delete of one line item rewrites the
\* total_amount of that line item's order with the recomputed sum and
\* leaves every other order, column and table as it was
C11_OneRecomputation ==
    [][(/\ last'.op \in {"create_order_composition.save",
                         "edit_order_composition.save",
                         "delete_selected(OrderComposition)"}
        /\ last'.result = "commit"
        /\ last'.n = 1) =>
          /\ Cardinality(TouchedLineItems) <= 1
          /\ TouchedLineItems = {} => db'.orders = db.orders
          /\ \A c \in TouchedLineItems :
                /\ ParentOf(c) \in DOMAIN db.orders
                /\ db'.orders = [db.orders EXCEPT ![ParentOf(c)].total_amount =
                        LineItemSum(db', LineItemsOf(db', ParentOf(c)))]
          /\ db'.customers = db.customers
          /\ db'.employees = db.employees
          /\ db'.menu_items = db.menu_items
          /\ db'.trigger_logs = db.trigger_logs]_vars

\* a line item was added to one of two orders that have different totals
C11_Witness ==
    /\ last.op = "create_order_composition.save"
    /\ last.result = "commit"
    /\ \E o, q \in DOMAIN db.orders :
        /\ LineItemsOf(db, o) # {}
        /\ LineItemsOf(db, q) # {}
        /\ db.orders[o].total_amount # db.orders[q].total_amount

\* C12: every line item of every committed state has a quantity of at
\* least 1
C12_QuantityAtLeastOne ==
    \A c \in DOMAIN db.order_compositions :
        db.order_compositions[c].quantity >= 1

\* C13: a save of the menu item edit form leaves every line item, with
\* its price_at_sale, and every order, with its total_amount, as it was
C13_MenuEditKeepsLineItems ==
    [][last'.op = "edit_menu_item.save" =>
          /\ db'.order_compositions = db.order_compositions
          /\ db'.orders = db.orders]_vars

\* the price of a menu item was changed while a line item of it keeps the
\* price it was sold at
C13_Witness ==
    /\ last.op = "edit_menu_item.save"
    /\ last.result = "commit"
    /\ last.n = 1
    /\ \E c \in DOMAIN db.order_compositions :
        LET row == db.order_compositions[c]
        IN  /\ row.menu_item_id \in DOMAIN db.menu_items
            /\ row.price_at_sale = AuditDb.menu_items[row.menu_item_id].selling_price
            /\ row.price_at_sale # db.menu_items[row.menu_item_id].selling_price

\* the line items a committed save of an order form adds: every inserted
\* row, except, for edit_order.save, the rows of menu items the order had
NewlyAdded ==
    { c \in DOMAIN db'.order_compositions \ DOMAIN db.order_compositions :
        last'.op = "edit_order.save" =>
            \A b \in LineItemsOf(db, db'.order_compositions[c].order_id) :
                db.order_compositions[b].menu_item_id
                    # db'.order_compositions[c].menu_item_id }

\* C14: a line item inserted through create_order, create_order_composition
\* or newly added in edit_order is stored with the selling_price its menu
\* item has when the line item is inserted
C14_PriceIsMenuPrice ==
    [][(/\ last'.op \in {"create_order.save", "edit_order.save",
                         "create_order_composition.save"}
        /\ last'.result = "commit") =>
          \A c \in NewlyAdded :
              db'.order_compositions[c].price_at_sale =
                  db.menu_items[db'.order_compositions[c].menu_item_id]
                      .selling_price]_vars

\* C15: an order that has at least one line item has a non-zero
\* total_amount
C15_NonZeroWithLineItems ==
    \A o \in DOMAIN db.orders :
        LineItemsOf(db, o) # {} => db.orders[o].total_amount # 0

\* C16: the status of every order of every committed state is one of the
\* enumerated statuses
C16_StatusEnumerated ==
    \A o \in DOMAIN db.orders : db.orders[o].status \in Range(Statuses)

\* C17: every order of every committed state references an employee that
\* exists, and no customer or a customer that exists
C17_OrderReferencesExist ==
    \A o \in DOMAIN db.orders :
        /\ db.orders[o].employee_id \in DOMAIN db.employees
        /\ \/ db.orders[o].customer_id = None
           \/ db.orders[o].customer_id \in DOMAIN db.customers

\* an order form opened before its customer or employee was deleted has
\* been saved and refused
C17_Witness ==
    /\ last.op \in {"create_order.save", "edit_order.save"}
    /\ last.result = "ForeignKeyViolation"
    /\ \/ Range(win.employee_map) \ DOMAIN db.employees # {}
       \/ Range(win.customer_map) \ DOMAIN db.customers # {}

\* C18: every order of every committed state has at least one line item
C18_OrderHasLineItem ==
    \A o \in DOMAIN db.orders : LineItemsOf(db, o) # {}

\* C19: a line item that a step keeps has the same order_id and
\* menu_item_id after it; only edit_order_composition.save changes a line
\* item that stays, and only its quantity and price_at_sale
C19_LineItemKeepsReferences ==
    [][\A c \in DOMAIN db.order_compositions
                  \cap DOMAIN db'.order_compositions :
          /\ db'.order_compositions[c].order_id
                = db.order_compositions[c].order_id
          /\ db'.order_compositions[c].menu_item_id
                = db.order_compositions[c].menu_item_id
          /\ db'.order_compositions[c] # db.order_compositions[c]
                => last'.op = "edit_order_composition.save"]_vars

\* the quantity of a line item has been edited to 0 while the line item
\* kept its order and its menu item
C19_Witness ==
    /\ last.op = "edit_order_composition.save"
    /\ last.result = "commit"
    /\ \E c \in DOMAIN db.order_compositions :
        /\ db.order_compositions[c].quantity = 0
        /\ db.order_compositions[c].menu_item_id = 1
        /\ db.order_compositions[c].price_at_sale = 251

\* the line items of order o, as a function of their ids
LineItemRows(d, o) == [c \in LineItemsOf(d, o) |-> d.order_compositions[c]]

C21_LogsNewestFirst ==
    [][last'.op = "load_logs" =>
        LET rows == trees'.logs_tree
        IN  /\ db' = db
            /\ Len(rows) = Len(db.trigger_logs)
            /\ Range(rows) = Range(db.trigger_logs)
            /\ \A i \in 1..(Len(rows) - 1) :
                  rows[i].created_at >= rows[i + 1].created_at]_vars

\* the Logs tab has been reloaded with two entries, the newer one on top
C21_Witness ==
    /\ last.op = "load_logs"
    /\ Len(db.trigger_logs) = 2
    /\ Len(trees.logs_tree) = 2
    /\ trees.logs_tree[1].created_at > trees.logs_tree[2].created_at

\* brackets, dashes and spaces removed
Unformatted(phone) ==
    SelectSeq(phone, LAMBDA c : c \notin { "(", ")", "-", " " })

AllDigits(s) == \A i \in DOMAIN s : IsDigit(s[i])

\* +7, 7 or 8 followed by ten digits, or ten digits with no prefix
DocumentedForm(phone) ==
    LET p == Unformatted(phone)
    IN  \/ Len(p) = 10 /\ AllDigits(p)
        \/ Len(p) = 11 /\ AllDigits(p) /\ p[1] \in { "7", "8" }
        \/ Len(p) = 12 /\ p[1] = "+" /\ p[2] = "7" /\ AllDigits(Tail(p))

\* C22: a save of the new-customer form is let through by
\* validate_russian_phone exactly when the text of the phone entry is in
\* one of the documented forms
C22_ValidatesDocumentedForms ==
    [][(last'.op = "create_customer.save" /\ win.kind = "create_customer") =>
        (last'.result # "phone" <=> DocumentedForm(win.e_phone))]_vars

RECURSIVE CartSum(_)
CartSum(cart) ==
    IF cart = <<>> THEN 0
    ELSE Head(cart).quantity * Head(cart).price + CartSum(Tail(cart))

C24_OrdersTabShowsStoredTotal ==
    (/\ last.op \in { "create_order_composition.save",
                      "edit_order_composition.save",
                      "delete_selected(OrderComposition)",
                      "create_order.save", "edit_order.save" }
     /\ last.result = "commit")
        => /\ DOMAIN trees.orders_tree = DOMAIN db.orders
           /\ \A o \in DOMAIN db.orders :
                 trees.orders_tree[o].total_amount = db.orders[o].total_amount

\* C25: a save of a line item that would bring the total of its order to
\* what total_amount cannot hold fails and leaves every table as it was,
\* and the stored total is at all times the exact sum of quantity *
\* price_at_sale over the line items of the order
C25_OverflowFailsWhole ==
    [][/\ last'.result = "NumericValueOutOfRange" => db' = db
       /\ \A o \in DOMAIN db'.orders :
            /\ db'.orders[o].total_amount = LineItemSum(db', LineItemsOf(db', o))
            /\ FitsNumeric(db'.orders[o].total_amount)]_vars

\* the edit of a line item has been refused for its total next to a line
\* item that fills most of the column
C25_Witness ==
    /\ last.op = "edit_order_composition.save"
    /\ last.result = "NumericValueOutOfRange"
    /\ \E o \in DOMAIN db.orders :
        /\ Cardinality(LineItemsOf(db, o)) = 2
        /\ 2 * db.orders[o].total_amount > NumericLimit

\* C26: after an UPDATE that moves a line item from order A to order B the
\* total of A is the sum over the line items A still has and the total of B
\* is the sum over its line items, the moved one included
C26_MoveKeepsBothTotals ==
    [][(last'.op = "UPDATE order_compositions SET order_id"
            /\ last'.result = "commit") =>
        \A c \in DOMAIN db.order_compositions :
            LET A == db.order_compositions[c].order_id
                B == db'.order_compositions[c].order_id
            IN  A # B =>
                  /\ db'.orders[A].total_amount
                        = LineItemSum(db', LineItemsOf(db', A))
                  /\ db'.orders[B].total_amount
                        = LineItemSum(db', LineItemsOf(db', B))]_vars

\* a line item or a recipe refers to menu item m
Referenced(d, m) == CompsOfMenuItem(d, m) # {} \/ RecipesOfMenuItem(d, m) # {}

\* C27: delete_selected on the Menu tab never removes a menu item that a
\* line item or a recipe refers to, and an attempt that removes no menu item
\* leaves the menu, the line items, the recipes, the totals and the log as
\* they were
C27_ReferencedMenuItemStays ==
    [][last'.op = "delete_selected(MenuItem)" =>
        /\ \A m \in DOMAIN db.menu_items :
              Referenced(db, m) => m \in DOMAIN db'.menu_items
        /\ DOMAIN db'.menu_items = DOMAIN db.menu_items => db' = db]_vars

\* the deletion has been refused while every menu item was referenced, one
\* of them by a recipe only
C27_Witness ==
    /\ last.op = "delete_selected(MenuItem)"
    /\ last.result = "NotNullViolation"
    /\ \A m \in DOMAIN db.menu_items : Referenced(db, m)
    /\ \E m \in DOMAIN db.menu_items :
        CompsOfMenuItem(db, m) = {} /\ RecipesOfMenuItem(db, m) # {}

\* C28: a committed delete_selected of a customer removes, in the same
\* step, the orders of that customer and the line items of those orders and
\* nothing else: no order is left that refers to the customer, no line item
\* that refers to a removed order, and every other order and line item is
\* as it was
C28_CustomerDeleteCascades ==
    [][(last'.op = "delete_selected(Customer)" /\ last'.result = "commit") =>
        \A c \in DOMAIN db.customers \ DOMAIN db'.customers :
            LET kept == { o \in DOMAIN db.orders : db.orders[o].customer_id # c }
            IN  /\ db'.orders = [o \in kept |-> db.orders[o]]
                /\ db'.order_compositions =
                     [i \in { x \in DOMAIN db.order_compositions :
                                db.order_compositions[x].order_id \in kept }
                        |-> db.order_compositions[i]]
                /\ db'.customers = [x \in DOMAIN db.customers \ {c} |->
                                        db.customers[x]]]_vars

\* a customer has been deleted together with an order and its line item,
\* and an order of nobody or of another customer is still there
C28_Witness ==
    /\ last.op = "delete_selected(Customer)"
    /\ last.result = "commit"
    /\ last.n >= 3
    /\ db.orders # <<>>
    /\ db.order_compositions # <<>>

\* the phones of the customers, employees and suppliers
StoredPhones(d) ==
    { d.customers[i].phone : i \in DOMAIN d.customers }
        \cup { d.employees[i].phone : i \in DOMAIN d.employees }
        \cup { d.suppliers[i].phone : i \in DOMAIN d.suppliers }

\* C29: every stored phone is empty or accepted by validate_russian_phone,
\* and a save refused for its phone leaves the database as it was
C29_StoredPhonesValid ==
    [][/\ \A phone \in StoredPhones(db') :
            phone = <<>> \/ validate_russian_phone(phone)
       /\ last'.result = "phone" => db' = db]_vars

\* an employee without a phone, a supplier whose phone was edited to the
\* formatted one, and a save just refused for its phone
C29_Witness ==
    /\ last.result = "phone"
    /\ \E i \in DOMAIN db.employees : db.employees[i].phone = <<>>
    /\ \E i \in DOMAIN db.suppliers : db.suppliers[i].phone = FormattedPhone
    /\ \E i \in DOMAIN db.customers : db.customers[i].phone = GoodPhone

\* C30: in the customers sheet of a saved report the orders column of a
\* customer is the number of orders that refer to the customer, and the
\* average column is the sum over the line items of those orders divided
\* by that number
C30_ReportCountsOrders ==
    [][(last'.op = "export_report" /\ last'.result = "saved") =>
        \A c \in DOMAIN db.customers :
            LET row == wb'.customers_ltv[<<db.customers[c].name,
                                           db.customers[c].email>>]
                os == OrdersOfCustomer(db, c)
                n == Cardinality(os)
                revenue == LineItemSum(db, UNION { LineItemsOf(db, o) : o \in os })
            IN  /\ row.orders = n
                /\ n > 0 => row.avg.num * n = revenue * row.avg.den]_vars

====
